---- MODULE Spec2Model ----
(***************************************************************************)
(* A model of the shorelark simulation crate: the world (animals, foods),  *)
(* Simulation::step with its collision and movement phases, and the Eye    *)
(* (Eye::new, Eye::process_vision).                                        *)
(*                                                                         *)
(* Numbers.  f32 lengths are fixed-point integers, One units per 1.0, and  *)
(* angles are integers, Pi units per pi radians.  Arithmetic on them is    *)
(* exact; only finite values are modelled (no NaN, no infinity).           *)
(***************************************************************************)
EXTENDS Integers, Sequences, FiniteSets, TLC

\* ------------------------------------------------------------------ bounds
MaxAnimals == 2
MaxFoods == 2
MaxTicks == 2
MaxEyeFoods == 2

\* --------------------------------------------------------------- constants
\* 1.0 in fixed point (the upper wrapping bound of lib.rs:52-53).
One == 1000
\* std::f32::consts::PI in angle units (so FRAC_PI_4 is 128 units).
Pi == 512
\* lib.rs:41, the 0.01 of `distance <= 0.01`.
EatDistance == 10
\* animal.rs:29, speed: 0.002.
InitialSpeed == 2
\* eye.rs:23.
FOV_RANGE == 250
\* eye.rs:86, PI + FRAC_PI_4.
FOV_ANGLE == Pi + (Pi \div 4)
\* eye.rs:97.
CELLS == 9

\* ---------------------------------------------------------------- geometry
Abs(n) == IF n < 0 THEN -n ELSE n

\* n / d rounded to the nearest integer, halves away from zero (d > 0).
RoundDiv(n, d) ==
    IF n >= 0 THEN (2 * n + d) \div (2 * d) ELSE -((2 * (-n) + d) \div (2 * d))

RECURSIVE IsqrtBetween(_, _, _)
\* The largest r in lo..hi with r * r <= n (lo * lo <= n < (hi + 1)^2).
IsqrtBetween(n, lo, hi) ==
    IF lo = hi THEN lo
    ELSE LET mid == (lo + hi + 1) \div 2
         IN  IF mid * mid <= n THEN IsqrtBetween(n, mid, hi)
             ELSE IsqrtBetween(n, lo, mid - 1)

\* floor(sqrt(n)) for 0 <= n.
Isqrt(n) == IsqrtBetween(n, 0, 4 * One)

\* na::Vector2 subtraction of two points: a - b.
VecSub(a, b) == <<a[1] - b[1], a[2] - b[2]>>

NormSquared(v) == v[1] * v[1] + v[2] * v[2]

\* Vector2::norm, rounded down to a whole unit.  For a whole number r,
\* Norm(v) < r exactly when the real norm is < r.
Norm(v) == Isqrt(NormSquared(v))

\* The distance compared with ten times the radius.
DistanceAtMostTenfold(a, b, r) ==
    NormSquared(VecSub(a, b)) <= (10 * r) * (10 * r)

\* na::distance(a, b) <= r, decided exactly (on the squares).
DistanceAtMost(a, b, r) == NormSquared(VecSub(a, b)) <= r * r

RECURSIVE WrapUp(_, _, _)
WrapUp(val, min, width) ==
    IF val < min THEN WrapUp(val + width, min, width) ELSE val

RECURSIVE WrapDown(_, _, _)
WrapDown(val, max, width) ==
    IF val > max THEN WrapDown(val - width, max, width) ELSE val

\* A wrap that leaves the value alone.
WrapNothing(val, min, max) == val

\* A wrap that clamps the value to [min, max].
WrapClamping(val, min, max) ==
    IF val < min THEN min ELSE IF val > max THEN max ELSE val

\* na::wrap(val, min, max): below min, add the width until >= min; above
\* max, subtract the width until <= max; a value in [min, max], both ends
\* included, is returned as it is.
Wrap(val, min, max) ==
    IF val < min THEN WrapUp(val + (max - min), min, max - min)
    ELSE IF val > max THEN WrapDown(val - (max - min), max, max - min)
    ELSE val

\* Rotation2::new(angle) followed by Rotation2::angle(): the angle of the
\* rotation matrix, which atan2 gives in (-Pi, Pi].
RotationAngle(angle) ==
    LET m == angle % (2 * Pi)
    IN  IF m > Pi THEN m - 2 * Pi ELSE m

\* 10000 * cos of a multiple of Pi / 4.
Cos10000(angle) ==
    LET a == Abs(RotationAngle(angle))
    IN  CASE a = 0 -> 10000
          [] a = Pi \div 4 -> 7071
          [] a = Pi \div 2 -> 0
          [] a = 3 * (Pi \div 4) -> -7071
          [] a = Pi -> -10000

\* 10000 * sin of a multiple of Pi / 4.
Sin10000(angle) == Cos10000(angle - (Pi \div 2))

\* rotation * na::Vector2::new(speed, 0.0).
RotateForward(rotation, speed) ==
    <<RoundDiv(speed * Cos10000(rotation), 10000),
      RoundDiv(speed * Sin10000(rotation), 10000)>>

\* 100000 * tan(k * pi / 512) for k = 0..128 (index k + 1).
TanTable ==
    <<0, 614, 1227, 1841, 2455, 3069, 3683, 4298,
      4913, 5528, 6144, 6760, 7376, 7994, 8611, 9230,
      9849, 10469, 11090, 11711, 12334, 12957, 13582, 14207,
      14834, 15461, 16090, 16720, 17352, 17984, 18619, 19254,
      19891, 20530, 21170, 21812, 22456, 23101, 23748, 24398,
      25049, 25702, 26357, 27014, 27674, 28335, 28999, 29666,
      30335, 31006, 31680, 32356, 33036, 33717, 34402, 35090,
      35781, 36474, 37171, 37871, 38574, 39281, 39991, 40704,
      41421, 42142, 42867, 43595, 44327, 45063, 45803, 46548,
      47296, 48050, 48807, 49569, 50336, 51107, 51884, 52665,
      53451, 54243, 55039, 55842, 56649, 57463, 58282, 59107,
      59938, 60775, 61618, 62468, 63324, 64187, 65057, 65934,
      66818, 67709, 68608, 69514, 70428, 71350, 72280, 73218,
      74165, 75121, 76085, 77058, 78041, 79033, 80035, 81046,
      82068, 83100, 84143, 85196, 86261, 87336, 88424, 89523,
      90635, 91759, 92895, 94045, 95208, 96385, 97575, 98780,
      100000>>

\* atan(y / x) for 0 <= y <= x, 0 < x, rounded down to an angle unit.
AtanOctant(y, x) ==
    CHOOSE k \in 0..(Pi \div 4) :
        /\ TanTable[k + 1] * x <= 100000 * y
        /\ k < Pi \div 4 => TanTable[k + 2] * x > 100000 * y

\* atan2(y, x) for 0 <= x, 0 <= y, not both 0.
AtanQuadrant(y, x) ==
    IF y <= x THEN AtanOctant(y, x) ELSE (Pi \div 2) - AtanOctant(x, y)

\* atan2(y, x) in (-Pi, Pi], not both 0.
Atan2(y, x) ==
    IF y >= 0
    THEN IF x >= 0 THEN AtanQuadrant(y, x) ELSE Pi - AtanQuadrant(y, -x)
    ELSE IF x >= 0 THEN -AtanQuadrant(-y, x) ELSE AtanQuadrant(-y, -x) - Pi

\* na::Rotation2::rotation_between(&Vector2::x(), &vec).angle(): the angle
\* from the +X axis to vec; the identity rotation (angle 0) for the zero
\* vector, which has no direction.
RotationBetweenX(vec) ==
    IF vec[1] = 0 /\ vec[2] = 0 THEN 0 ELSE Atan2(vec[2], vec[1])

\* ------------------------------------------------------------------- state
VARIABLES
    animals,      \* World::animals, a Vec<Animal>
    foods,        \* World::foods, a Vec<Food>
    rngCalls,     \* how many values the step has drawn from rng so far
    brainCalls,   \* how many times the step has run an animal's brain so far
    pc,           \* where Simulation::step is: "idle" between two calls
    ai,           \* process_collisions: index of the outer loop (animals)
    fi,           \* process_collisions: index of the inner loop (foods)
    mi,           \* process_movements: index of the loop (animals)
    ticks,        \* completed calls of Simulation::step
    eyeArgs,      \* the arguments given to Eye::new
    eye,          \* the Eye that Eye::new returned
    epc,          \* where the eye's caller is
    visPosition,  \* process_vision: argument position
    visRotation,  \* process_vision: argument rotation
    visFoods,     \* process_vision: argument foods
    vision        \* process_vision: the Vec<f32> returned

worldVars == <<animals, foods, rngCalls, brainCalls, pc, ai, fi, mi, ticks>>
eyeVars == <<eyeArgs, eye, epc, visPosition, visRotation, visFoods, vision>>
vars == <<worldVars, eyeVars>>

\* --------------------------------------------------------------------- Eye
\* The value of an Eye that was never built.
NoEye == [fov_range |-> 0, fov_angle |-> 0, cells |-> 0]

\* Eye::new without the assertion on cells.
EyeNewUncheckedCells(fov_range, fov_angle, cells) ==
    IF fov_range > 0 /\ fov_angle > 0
    THEN [panicked |-> FALSE,
          eye |-> [fov_range |-> fov_range, fov_angle |-> fov_angle,
                   cells |-> cells]]
    ELSE [panicked |-> TRUE, eye |-> NoEye]

\* Eye::new: the three assert!s, then the struct of the three arguments.
EyeNew(fov_range, fov_angle, cells) ==
    IF fov_range > 0 /\ fov_angle > 0 /\ cells > 0
    THEN [panicked |-> FALSE,
          eye |-> [fov_range |-> fov_range, fov_angle |-> fov_angle,
                   cells |-> cells]]
    ELSE [panicked |-> TRUE, eye |-> NoEye]

\* impl Default for Eye.
EyeDefault == EyeNew(FOV_RANGE, FOV_ANGLE, CELLS).eye

Min(a, b) == IF a <= b THEN a ELSE b

\* Eye::food_vec.
FoodVec(position, food) == VecSub(food.position, position)

\* Eye::food_angle.
FoodAngle(e, rotation, vec) ==
    LET between == RotationBetweenX(vec)
        relative == between - RotationAngle(rotation)
        wrapped == Wrap(relative, -Pi, Pi)
    IN  wrapped + (e.fov_angle \div 2)

\* visible_food with the range compared by <=.
VisibleFoodInclusive(e, dist, angle) ==
    dist <= e.fov_range /\ angle >= 0 /\ angle <= e.fov_angle

\* Eye::visible_food.
VisibleFood(e, dist, angle) ==
    dist < e.fov_range /\ angle >= 0 /\ angle <= e.fov_angle

\* process_vision's cell without the .min(cells.len() - 1).
CellIndexUnclamped(e, angle, len) == (angle * e.cells) \div e.fov_angle

\* process_vision: angle / fov_angle * cells, cast to usize (rounded down:
\* the angle of a visible food is >= 0), then .min(cells.len() - 1).
CellIndex(e, angle, len) == Min((angle * e.cells) \div e.fov_angle, len - 1)

\* The energy with the operands of the subtraction swapped.
EnergySwapped(e, dist) == ((dist - e.fov_range) * One) \div e.fov_range

\* process_vision: (fov_range - dist) / fov_range, an f32 in fixed point.
Energy(e, dist) == ((e.fov_range - dist) * One) \div e.fov_range

RECURSIVE VisionLoop(_, _, _, _, _, _)
\* process_vision: the loop over foods from food i on, with the cells so
\* far.  Indexing cells outside its length panics.
VisionLoop(e, position, rotation, fs, i, cells) ==
    IF i > Len(fs) THEN [panicked |-> FALSE, cells |-> cells]
    ELSE LET vec == FoodVec(position, fs[i])
             dist == Norm(vec)
             angle == FoodAngle(e, rotation, vec)
         IN  IF ~VisibleFood(e, dist, angle)
             THEN VisionLoop(e, position, rotation, fs, i + 1, cells)
             ELSE LET cell == CellIndex(e, angle, Len(cells))
                  IN  IF cell < 0 \/ cell >= Len(cells)
                      THEN [panicked |-> TRUE, cells |-> cells]
                      ELSE VisionLoop(e, position, rotation, fs, i + 1,
                               [cells EXCEPT ![cell + 1] = @ + Energy(e, dist)])

\* Eye::process_vision: vec![0.0; self.cells], then the loop.
ProcessVision(e, position, rotation, fs) ==
    VisionLoop(e, position, rotation, fs, 1, [c \in 1..e.cells |-> 0])


\* ------------------------------------------------------------------- world
\* The points rng.gen() yields in the model: each coordinate in [0, One).
DrawPoints == {<<500, 500>>, <<506, 508>>, <<998, 1>>}

\* The rotations rng.gen() yields in the model.
DrawRotations == {0, -(Pi \div 2)}

\* The (position, rotation) pairs Animal::new draws in the model: an animal
\* in the middle or next to two edges, with either rotation, and an animal
\* just below the right edge heading right.
AnimalDraws ==
    ({<<500, 500>>, <<998, 1>>} \X DrawRotations) \cup {<<<<999, 500>>, 0>>}

\* Animal::new with the two values drawn from rng.
AnimalNew(e, b, position, rotation) ==
    [position |-> position, rotation |-> rotation, speed |-> InitialSpeed,
     eye |-> e, brain |-> b, satiation |-> 0]

\* Food::random with the value drawn from rng.
FoodRandom(position) == [position |-> position]

\* A food that is eaten is removed from the world.
RespawnRemoving(fs, f, position) ==
    [k \in 1..(Len(fs) - 1) |-> IF k < f THEN fs[k] ELSE fs[k + 1]]

\* food.position = rng.gen()
Respawn(fs, f, position) == [fs EXCEPT ![f].position = position]

\* The body of the loop of process_movements for one animal.
MoveAnimal(a) ==
    LET d == RotateForward(a.rotation, a.speed)
    IN  [a EXCEPT !.position = <<Wrap(a.position[1] + d[1], 0, One),
                                 Wrap(a.position[2] + d[2], 0, One)>>]

WorldIdle ==
    /\ animals = <<>>
    /\ foods = <<>>
    /\ rngCalls = 0
    /\ brainCalls = 0
    /\ pc = "idle"
    /\ ai = 1
    /\ fi = 1
    /\ mi = 1
    /\ ticks = 0

EyeIdle ==
    /\ eyeArgs = <<FOV_RANGE, FOV_ANGLE, CELLS>>
    /\ eye = NoEye
    /\ epc = "idle"
    /\ visPosition = <<0, 0>>
    /\ visRotation = 0
    /\ visFoods = <<>>
    /\ vision = <<>>

\* Simulation::random: a world of animals and foods, each placed by rng.
Init ==
    /\ \E na \in 0..MaxAnimals : \E nf \in 0..MaxFoods :
         /\ animals \in [1..na -> {AnimalNew(EyeDefault, "nn", d[1], d[2]) :
                                     d \in AnimalDraws}]
         /\ foods \in [1..nf -> {FoodRandom(p) : p \in DrawPoints}]
    /\ rngCalls = 0
    /\ brainCalls = 0
    /\ pc = "idle"
    /\ ai = 1
    /\ fi = 1
    /\ mi = 1
    /\ ticks = 0
    /\ EyeIdle

\* step runs process_movements first and never process_collisions.
StepBeginWithMovements ==
    /\ pc = "idle"
    /\ ticks < MaxTicks
    /\ pc' = "movements"
    /\ mi' = 1
    /\ UNCHANGED <<animals, foods, rngCalls, brainCalls, ai, fi, ticks>>

\* Simulation::step is called: it enters process_collisions.
StepBegin ==
    /\ pc = "idle"
    /\ ticks < MaxTicks
    /\ pc' = "collisions"
    /\ ai' = 1
    /\ fi' = 1
    /\ UNCHANGED <<animals, foods, rngCalls, brainCalls, mi, ticks>>

\* process_collisions: one pass of the inner loop, for animal ai and food fi.
CollisionPair ==
    /\ pc = "collisions"
    /\ ai <= Len(animals)
    /\ fi <= Len(foods)
    /\ IF DistanceAtMost(animals[ai].position, foods[fi].position, EatDistance)
       THEN /\ \E p \in DrawPoints : foods' = Respawn(foods, fi, p)
            /\ rngCalls' = rngCalls + 1
       ELSE UNCHANGED <<foods, rngCalls>>
    /\ fi' = fi + 1
    /\ UNCHANGED <<animals, brainCalls, pc, ai, mi, ticks>>

\* process_collisions: the inner loop is over, the outer loop goes on.
CollisionNextAnimal ==
    /\ pc = "collisions"
    /\ ai <= Len(animals)
    /\ fi > Len(foods)
    /\ ai' = ai + 1
    /\ fi' = 1
    /\ UNCHANGED <<animals, foods, rngCalls, brainCalls, pc, mi, ticks>>

\* process_collisions returns and step enters process_movements.
CollisionsEnd ==
    /\ pc = "collisions"
    /\ ai > Len(animals)
    /\ pc' = "movements"
    /\ mi' = 1
    /\ UNCHANGED <<animals, foods, rngCalls, brainCalls, ai, fi, ticks>>

\* process_movements: one pass of the loop, for animal mi.
MovementAnimal ==
    /\ pc = "movements"
    /\ mi <= Len(animals)
    /\ animals' = [animals EXCEPT ![mi] = MoveAnimal(@)]
    /\ mi' = mi + 1
    /\ UNCHANGED <<foods, rngCalls, brainCalls, pc, ai, fi, ticks>>

\* process_movements returns, and step with it.
StepEnd ==
    /\ pc = "movements"
    /\ mi > Len(animals)
    /\ pc' = "idle"
    /\ ticks' = ticks + 1
    /\ UNCHANGED <<animals, foods, rngCalls, brainCalls, ai, fi, mi>>

Next ==
    \/ StepBegin /\ UNCHANGED eyeVars
    \/ CollisionPair /\ UNCHANGED eyeVars
    \/ CollisionNextAnimal /\ UNCHANGED eyeVars
    \/ CollisionsEnd /\ UNCHANGED eyeVars
    \/ MovementAnimal /\ UNCHANGED eyeVars
    \/ StepEnd /\ UNCHANGED eyeVars

Spec == Init /\ [][Next]_vars

\* ------------------------------------------------------------ the eye alone
\* The arguments Eye::new is tried on: valid and invalid ones.
EyeRanges == {-1, 0, 500, 1000}
EyeAngles == {-2, 0, Pi \div 2, FOV_ANGLE, 2 * Pi}
EyeCells == {0, 1, 13}

\* The arguments process_vision is tried on.
EyePositions == {<<500, 500>>}
EyeRotations == {0, Pi \div 2, 2 * Pi + (Pi \div 2)}
EyeFoodPoints ==
    {<<1000, 500>>, <<750, 750>>, <<750, 250>>, <<500, 500>>,
     <<1000, 1000>>, <<0, 500>>, <<1000, 400>>}

InitEye ==
    /\ WorldIdle
    /\ eyeArgs \in EyeRanges \X EyeAngles \X EyeCells
    /\ eye = NoEye
    /\ epc = "idle"
    /\ visPosition \in EyePositions
    /\ visRotation \in EyeRotations
    /\ \E n \in 0..MaxEyeFoods :
         visFoods \in [1..n -> {FoodRandom(p) : p \in EyeFoodPoints}]
    /\ vision = <<>>

\* The caller builds its eye: Eye::new(fov_range, fov_angle, cells).
EyeConstruct ==
    /\ epc = "idle"
    /\ LET r == EyeNew(eyeArgs[1], eyeArgs[2], eyeArgs[3])
       IN  IF r.panicked
           THEN epc' = "panicked" /\ UNCHANGED eye
           ELSE epc' = "built" /\ eye' = r.eye
    /\ UNCHANGED <<eyeArgs, visPosition, visRotation, visFoods, vision>>

\* The caller asks the eye: eye.process_vision(position, rotation, &foods).
VisionCall ==
    /\ epc = "built"
    /\ LET r == ProcessVision(eye, visPosition, visRotation, visFoods)
       IN  IF r.panicked
           THEN epc' = "out_of_bounds" /\ UNCHANGED vision
           ELSE epc' = "seen" /\ vision' = r.cells
    /\ UNCHANGED <<eyeArgs, eye, visPosition, visRotation, visFoods>>

NextEye ==
    \/ EyeConstruct /\ UNCHANGED worldVars
    \/ VisionCall /\ UNCHANGED worldVars

SpecEye == InitEye /\ [][NextEye]_vars

\* ------------------------------------------------------------------ claims
AnimalIndices == 1..Len(animals)
FoodIndices == 1..Len(foods)

\* C1: every step runs the whole collision phase first and the whole
\* movement phase second: a step starts with the collisions, no animal moves
\* while the collisions run, the movements start only once the loop over the
\* animals is over (also with no animals or no foods), no food is respawned
\* while the movements run, and the step ends only once every animal moved.
C1_PhasesInOrder ==
    [][/\ pc = "idle" => pc' = "collisions"
       /\ pc = "collisions" =>
            /\ pc' \in {"collisions", "movements"}
            /\ animals' = animals
            /\ pc' = "movements" => ai > Len(animals)
       /\ pc = "movements" =>
            /\ pc' \in {"movements", "idle"}
            /\ foods' = foods /\ rngCalls' = rngCalls
            /\ pc' = "idle" => mi > Len(animals) /\ ticks' = ticks + 1
       /\ ticks' # ticks => pc = "movements"]_vars

\* In the first step a food was respawned and, later, an animal has moved.
C1_MovedAfterCollisions ==
    ticks = 0 /\ pc = "movements" /\ mi > 1 /\ rngCalls > 0

\* C2 as claimed: both coordinates of every animal are >= 0 and < 1.
C2_PositionsBelowOne ==
    \A k \in AnimalIndices : \A c \in 1..2 :
        0 <= animals[k].position[c] /\ animals[k].position[c] < One

\* C2: both coordinates of every animal are >= 0 and <= 1; the wrap leaves
\* a coordinate that lands on 1.0 where it is.
C2_PositionsUpToOne ==
    \A k \in AnimalIndices : \A c \in 1..2 :
        0 <= animals[k].position[c] /\ animals[k].position[c] <= One

\* An animal placed below 1.0 has moved onto 1.0.
C2_AnimalAtOne ==
    \E k \in AnimalIndices : animals[k].position[1] = One

\* C3: in the collision phase, when the animal and the food of the pair at
\* hand are at most 0.01 apart, the food gets a newly drawn position and the
\* animal's satiation grows by exactly 1.
C3_EatingFeedsTheAnimal ==
    [][(/\ pc = "collisions"
        /\ ai \in AnimalIndices
        /\ fi \in FoodIndices
        /\ DistanceAtMost(animals[ai].position, foods[fi].position,
                          EatDistance))
       => /\ rngCalls' = rngCalls + 1
          /\ foods'[fi].position \in DrawPoints
          /\ animals'[ai].satiation = animals[ai].satiation + 1]_vars

\* C4: no step changes the number of foods.
C4_FoodCountConstant == [][Len(foods') = Len(foods)]_vars

\* A food was eaten (respawned) and the world still has foods.
C4_FoodEaten == rngCalls > 0 /\ Len(foods) > 0

\* C6: in every step the brain of each animal is run (on the animal's
\* vision): between two steps it has run once per animal and step.
C6_BrainRunPerAnimalAndStep ==
    pc = "idle" => brainCalls = ticks * Len(animals)

\* The foods process_vision was given, as the eye at hand sees them.
SeenIndices == 1..Len(visFoods)
SeenDist(i) == Norm(FoodVec(visPosition, visFoods[i]))
SeenAngle(i) == FoodAngle(eye, visRotation, FoodVec(visPosition, visFoods[i]))
SeenVisible(i) == VisibleFood(eye, SeenDist(i), SeenAngle(i))
SeenCell(i) == CellIndex(eye, SeenAngle(i), eye.cells)

\* s without its i-th element.
SeqWithout(s, i) ==
    [k \in 1..(Len(s) - 1) |-> IF k < i THEN s[k] ELSE s[k + 1]]

\* C7: for a valid eye and any position, rotation and foods, process_vision
\* returns (it does not panic) a vector of exactly `cells` entries, each
\* >= 0, and all 0 when no food is visible.
C7_VisionShape ==
    /\ epc # "out_of_bounds"
    /\ epc = "seen" =>
         /\ Len(vision) = eye.cells
         /\ \A c \in 1..Len(vision) : vision[c] >= 0
         /\ (\A i \in SeenIndices : ~SeenVisible(i)) =>
              \A c \in 1..Len(vision) : vision[c] = 0

\* process_vision returned a vector with a cell that saw food.
C7_SomethingSeen ==
    epc = "seen" /\ \E c \in 1..Len(vision) : vision[c] > 0

\* C8: a food at a distance >= fov_range is not visible (also at exactly
\* fov_range) and the vector returned is the one returned without it.
C8_BeyondRangeUnseen ==
    epc = "seen" =>
        \A i \in SeenIndices :
            SeenDist(i) >= eye.fov_range =>
                /\ ~SeenVisible(i)
                /\ vision = ProcessVision(eye, visPosition, visRotation,
                                          SeqWithout(visFoods, i)).cells

\* process_vision has run on a food at exactly fov_range, inside the cone,
\* next to a food that is visible.
C8_FoodAtRange ==
    /\ epc = "seen"
    /\ \E i \in SeenIndices :
         /\ SeenDist(i) = eye.fov_range
         /\ SeenAngle(i) >= 0 /\ SeenAngle(i) <= eye.fov_angle
    /\ \E c \in 1..Len(vision) : vision[c] > 0

\* C9: the cell of every visible food is in 0..cells - 1 and its energy is
\* in that cell; a food whose shifted angle is 0 is visible and in cell 0,
\* one whose shifted angle is fov_angle is visible and in cell cells - 1
\* (both when in range); no index is ever out of range.
C9_CellInRange ==
    /\ epc # "out_of_bounds"
    /\ epc = "seen" =>
         \A i \in SeenIndices :
            /\ SeenVisible(i) =>
                 /\ SeenCell(i) \in 0..(eye.cells - 1)
                 /\ vision[SeenCell(i) + 1] >= Energy(eye, SeenDist(i))
                 /\ Energy(eye, SeenDist(i)) > 0
            /\ (SeenDist(i) < eye.fov_range /\ SeenAngle(i) = 0) =>
                 SeenVisible(i) /\ SeenCell(i) = 0
            /\ (SeenDist(i) < eye.fov_range /\ SeenAngle(i) = eye.fov_angle) =>
                 SeenVisible(i) /\ SeenCell(i) = eye.cells - 1

\* process_vision has run on a visible food on the far edge of the cone, for
\* an eye of several cells.
C9_FoodOnEdge ==
    /\ epc = "seen"
    /\ eye.cells > 1
    /\ \E i \in SeenIndices :
         SeenVisible(i) /\ SeenAngle(i) = eye.fov_angle

EyeArgsValid == eyeArgs[1] > 0 /\ eyeArgs[2] > 0 /\ eyeArgs[3] > 0

\* C10: Eye::new panics, and yields no eye, when fov_range <= 0 or
\* fov_angle <= 0 or cells = 0; otherwise it yields the eye of exactly its
\* three arguments; and once built, an eye never changes.
C10_EyeNewValidates ==
    [][/\ epc = "idle" =>
            IF EyeArgsValid
            THEN /\ epc' = "built"
                 /\ eye' = [fov_range |-> eyeArgs[1],
                            fov_angle |-> eyeArgs[2], cells |-> eyeArgs[3]]
            ELSE epc' = "panicked" /\ eye' = NoEye
       /\ epc # "idle" => eye' = eye]_vars

\* Eye::new has panicked on cells = 0 alone.
C10_PanickedOnCells ==
    epc = "panicked" /\ eyeArgs[1] > 0 /\ eyeArgs[2] > 0 /\ eyeArgs[3] = 0

\* The second animal is about to examine the only food, in the first step,
\* standing where the first animal stands, after the first animal ate that
\* food: at the start of the step the food was within 0.01 of both.
SecondAnimalAtSharedFood ==
    /\ ticks = 0
    /\ pc = "collisions"
    /\ Len(animals) >= 2 /\ Len(foods) = 1
    /\ ai = 2 /\ fi = 1
    /\ rngCalls = 1
    /\ animals[1].position = animals[2].position

\* C11: when two animals are within 0.01 of the same food at the start of a
\* step, both are credited (satiation + 1 each, from 0 in the first step) and
\* the food is repositioned once: the later animal's turn credits it and
\* leaves the food where the earlier animal's turn put it.
C11_BothCreditedFoodMovedOnce ==
    [][SecondAnimalAtSharedFood =>
          /\ animals'[1].satiation = 1
          /\ animals'[2].satiation = 1
          /\ rngCalls' = 1]_vars

\* A coordinate reduced modulo 1.0.
Modulo1(v) == v % One

\* A coordinate reduced modulo 1.0, but for 1.0 itself, which stays.
Modulo1Keeping1(v) == IF v = One THEN One ELSE v % One

\* The displacement of a step: speed along the heading (quarter turns).
Forward(a) ==
    CASE RotationAngle(a.rotation) = 0 -> <<a.speed, 0>>
      [] RotationAngle(a.rotation) = Pi \div 2 -> <<0, a.speed>>
      [] RotationAngle(a.rotation) = -(Pi \div 2) -> <<0, -a.speed>>
      [] RotationAngle(a.rotation) = Pi -> <<-a.speed, 0>>

\* C12 as claimed: the movement of an animal sets each coordinate to the old
\* one plus the displacement, reduced modulo 1, and leaves heading and speed.
C12_MovedModulo1 ==
    [][(pc = "movements" /\ mi \in AnimalIndices) =>
          /\ \A c \in 1..2 :
               animals'[mi].position[c] =
                   Modulo1(animals[mi].position[c] + Forward(animals[mi])[c])
          /\ animals'[mi].rotation = animals[mi].rotation
          /\ animals'[mi].speed = animals[mi].speed]_vars

\* C12: the same, but a coordinate that lands exactly on 1.0 stays 1.0 (it
\* is not reduced to 0); any other is reduced modulo 1, so that 0.999 + 0.002
\* gives 0.001.
C12_MovedModulo1Keeping1 ==
    [][(pc = "movements" /\ mi \in AnimalIndices) =>
          /\ \A c \in 1..2 :
               animals'[mi].position[c] =
                   Modulo1Keeping1(animals[mi].position[c]
                                   + Forward(animals[mi])[c])
          /\ animals'[mi].rotation = animals[mi].rotation
          /\ animals'[mi].speed = animals[mi].speed]_vars

\* The animal placed at x = 0.999 with heading 0 has moved to x = 0.001.
C12_WrappedTo001 ==
    \E k \in AnimalIndices :
        /\ animals[k].position = <<1, 500>>
        /\ animals[k].rotation = 0

\* C13: the collision phase changes no animal's position, heading or speed,
\* and moves a food only if it is the food at hand and within 0.01 of the
\* animal at hand; the movement phase changes no food and no satiation, and
\* moves only the animal at hand, to a position given by its own position,
\* heading and speed.
C13_PhaseFrames ==
    [][/\ pc = "collisions" =>
            /\ Len(animals') = Len(animals)
            /\ \A k \in AnimalIndices :
                 /\ animals'[k].position = animals[k].position
                 /\ animals'[k].rotation = animals[k].rotation
                 /\ animals'[k].speed = animals[k].speed
            /\ \A f \in FoodIndices :
                 (f \notin DOMAIN foods' \/ foods'[f] # foods[f]) =>
                     /\ f = fi
                     /\ ai \in AnimalIndices
                     /\ NormSquared(VecSub(animals[ai].position,
                                           foods[f].position))
                          <= EatDistance * EatDistance
       /\ pc = "movements" =>
            /\ foods' = foods
            /\ Len(animals') = Len(animals)
            /\ \A k \in AnimalIndices :
                 /\ animals'[k].satiation = animals[k].satiation
                 /\ k # mi => animals'[k] = animals[k]
                 /\ k = mi =>
                      \A c \in 1..2 :
                          animals'[k].position[c] =
                              Modulo1Keeping1(animals[k].position[c]
                                              + Forward(animals[k])[c])]_vars

\* After one step of a world of two foods and two animals, one food was
\* eaten and respawned and the other was left where it was.
C13_OneEatenOneLeft ==
    /\ ticks = 1 /\ pc = "idle"
    /\ rngCalls = 1
    /\ Len(foods) = 2 /\ Len(animals) = 2

====
